---- MODULE Spec2Model ----
(***************************************************************************)
(* Receipt model and verification dispatch of risc0-verifier:              *)
(*   src/src/receipt.rs       Proof, Journal, InnerReceipt,                *)
(*                            InnerAssumptionReceipt                       *)
(*   src/src/circuit/v1_2.rs  control_id                                   *)
(* Every operation is a pure function of its arguments.  Init draws the    *)
(* arguments of one call from bounded sets, the action of that call        *)
(* applies the function and stores what it returned.                       *)
(***************************************************************************)
EXTENDS Integers, Sequences, FiniteSets, TLC

VARIABLES op, proof, ctx, image_id, pubs, debug, hash_name, po2,
          pc, result, trace, cid, assumption

vars == <<op, proof, ctx, image_id, pubs, debug, hash_name, po2,
          pc, result, trace, cid, assumption>>

(***************************************************************************)
(* Bounds                                                                  *)
(***************************************************************************)
MaxJournalLen == 1
MaxSegments == 2
MaxPo2 == 26

(***************************************************************************)
(* Digests.  A digest is a natural number.  S::hash_bytes and the          *)
(* structural hash of a claim are injective on the bounded domain          *)
(* (collision freedom), and are computed, not assumed equal.               *)
(***************************************************************************)
ByteValues == {0, 1}

RECURSIVE Sha256(_)
Sha256(bytes) ==
    IF bytes = <<>> THEN 0
    ELSE Sha256(SubSeq(bytes, 1, Len(bytes) - 1)) * Cardinality(ByteValues)
         + bytes[Len(bytes)] + 1

RECURSIVE Pow(_, _)
Pow(b, n) == IF n = 0 THEN 1 ELSE b * Pow(b, n - 1)

\* one more than the largest digest of a journal: a digest of no journal
MaxOutDigest == Pow(Cardinality(ByteValues), MaxJournalLen + 1) - 1
OutDigests == 0..MaxOutDigest

ImageIds == {0, 1}
ExitCodes == <<"Halted(0)", "Halted(1)">>
ExitCodeSet == {ExitCodes[i] : i \in DOMAIN ExitCodes}
ExitIdx(e) == CHOOSE i \in DOMAIN ExitCodes : ExitCodes[i] = e

NoDigest == 0 - 1

(***************************************************************************)
(* Journal                                                                 *)
(***************************************************************************)
RECURSIVE SeqsUpTo(_, _)
SeqsUpTo(S, n) ==
    IF n = 0 THEN {<<>>}
    ELSE LET shorter == SeqsUpTo(S, n - 1)
         IN shorter \cup {Append(s, x) : s \in shorter, x \in S}

JournalBytes == SeqsUpTo(ByteValues, MaxJournalLen)

JournalNew(bytes) == [bytes |-> bytes]

JournalDigest_lenOnly(j) == Len(j.bytes)

JournalDigest(j) == Sha256(j.bytes)

(***************************************************************************)
(* The `pubs` argument: impl Into<Digest>, a Journal or a digest           *)
(***************************************************************************)
PubsJournal(bytes) == [kind |-> "Journal", journal |-> JournalNew(bytes), digest |-> NoDigest]
PubsDigest(d) == [kind |-> "Digest", journal |-> JournalNew(<<>>), digest |-> d]
PubsValues == {PubsJournal(b) : b \in JournalBytes} \cup {PubsDigest(d) : d \in OutDigests}

IntoDigest(p) == IF p.kind = "Journal" THEN JournalDigest(p.journal) ELSE p.digest

(***************************************************************************)
(* Claim model: MaybePruned, ReceiptClaim                                  *)
(***************************************************************************)
PrunedOut(d) == [pruned |-> TRUE, bytes |-> <<>>, digest |-> d]
ValueOut(b) == [pruned |-> FALSE, bytes |-> b, digest |-> NoDigest]
OutputDigest(o) == IF o.pruned THEN o.digest ELSE Sha256(o.bytes)

ReceiptClaimOk(id, journal) ==
    [pre |-> id, exit_code |-> "Halted(0)", output |-> journal]

ClaimDigest(c) ==
    (c.pre * Len(ExitCodes) + (ExitIdx(c.exit_code) - 1)) * (MaxOutDigest + 1)
    + OutputDigest(c.output)

MaxClaimDigest == Cardinality(ImageIds) * Len(ExitCodes) * (MaxOutDigest + 1) - 1

NoClaim == ReceiptClaimOk(0, PrunedOut(0))
PrunedClaim(d) == [pruned |-> TRUE, value |-> NoClaim, digest |-> d]
ValueClaim(c) == [pruned |-> FALSE, value |-> c, digest |-> NoDigest]
MaybePrunedDigest(m) == IF m.pruned THEN m.digest ELSE ClaimDigest(m.value)

Outputs == {PrunedOut(d) : d \in OutDigests} \cup {ValueOut(b) : b \in JournalBytes}
ReceiptClaims == [pre : ImageIds, exit_code : ExitCodeSet, output : Outputs]
MaybePrunedClaims ==
    {ValueClaim(c) : c \in ReceiptClaims} \cup {PrunedClaim(d) : d \in 0..MaxClaimDigest}

(***************************************************************************)
(* Results                                                                 *)
(***************************************************************************)
Ok == [ok |-> TRUE, err |-> "", expected |-> NoDigest, received |-> NoDigest]
Err(e) == [ok |-> FALSE, err |-> e, expected |-> NoDigest, received |-> NoDigest]
ClaimDigestMismatch(e, r) ==
    [ok |-> FALSE, err |-> "ClaimDigestMismatch", expected |-> e, received |-> r]

ClaimOk(m) == [ok |-> TRUE, err |-> "", value |-> m]
ClaimErr(e) == [ok |-> FALSE, err |-> e, value |-> PrunedClaim(NoDigest)]

DigestOk(d) == [ok |-> TRUE, err |-> "", digest |-> d]
DigestErr(e) == [ok |-> FALSE, err |-> e, digest |-> NoDigest]

(***************************************************************************)
(* VerifierContext                                                         *)
(***************************************************************************)
Contexts == {"v1_0", "v1_1", "v1_2"}
ContextParameters(c) == CASE c = "v1_0" -> 0 [] c = "v1_1" -> 1 [] c = "v1_2" -> 2
\* the digests of the three parameter sets and one digest of none of them
ParameterDigests == 0..Cardinality(Contexts)

VerifierContext_v1_1 == "v1_1"
VerifierContext_v1_2 == "v1_2"

(***************************************************************************)
(* Receipts                                                                *)
(***************************************************************************)
Seals == {"valid", "tampered"}
SegmentClaims == [pre : ImageIds, exit_code : ExitCodeSet, output : {PrunedOut(1)}]
SegmentChains == SeqsUpTo(SegmentClaims, MaxSegments)

CompositeReceipt(segs, vp, seal) ==
    [segments |-> segs, verifier_parameters |-> vp, seal |-> seal]
SuccinctReceipt(claim, vp, seal) ==
    [claim |-> claim, verifier_parameters |-> vp, seal |-> seal]

NoComposite == CompositeReceipt(<<>>, NoDigest, "tampered")
NoSuccinct == SuccinctReceipt(PrunedClaim(NoDigest), NoDigest, "tampered")

Composite(x) == [variant |-> "Composite", composite |-> x, succinct |-> NoSuccinct]
Succinct(x) == [variant |-> "Succinct", composite |-> NoComposite, succinct |-> x]

CompositeReceipts ==
    {CompositeReceipt(s, vp, seal) : s \in SegmentChains, vp \in ParameterDigests, seal \in Seals}
SuccinctReceipts ==
    {SuccinctReceipt(c, vp, seal) : c \in MaybePrunedClaims, vp \in ParameterDigests, seal \in Seals}
InnerReceipts ==
    {Composite(x) : x \in CompositeReceipts} \cup {Succinct(x) : x \in SuccinctReceipts}

ProofNew(inner) == [inner |-> inner]
Proofs == {ProofNew(r) : r \in InnerReceipts}

\* composite::CompositeReceipt and succinct::SuccinctReceipt
ReceiptVerifyIntegrity(x, c) ==
    IF x.verifier_parameters # ContextParameters(c) THEN Err("VerifierParametersMismatch")
    ELSE IF x.seal # "valid" THEN Err("InvalidProof")
    ELSE Ok

CompositeClaim(x) ==
    IF x.segments = <<>> THEN [ok |-> FALSE, err |-> "ReceiptFormatError", value |-> NoClaim]
    ELSE [ok |-> TRUE, err |-> "",
          value |-> [pre |-> x.segments[1].pre,
                     exit_code |-> x.segments[Len(x.segments)].exit_code,
                     output |-> x.segments[Len(x.segments)].output]]

IntoUnknown(x) ==
    SuccinctReceipt(PrunedClaim(MaybePrunedDigest(x.claim)), x.verifier_parameters, x.seal)

(***************************************************************************)
(* InnerReceipt                                                            *)
(***************************************************************************)
InnerVerifyIntegrity_succinctUnchecked(self, c) ==
    IF self.variant = "Composite"
    THEN ReceiptVerifyIntegrity(self.composite, c)
    ELSE Ok

InnerVerifyIntegrity(self, c) ==
    IF self.variant = "Composite"
    THEN ReceiptVerifyIntegrity(self.composite, c)
    ELSE ReceiptVerifyIntegrity(self.succinct, c)

InnerClaim(self) ==
    IF self.variant = "Composite"
    THEN LET c == CompositeClaim(self.composite)
         IN IF c.ok THEN ClaimOk(ValueClaim(c.value)) ELSE ClaimErr(c.err)
    ELSE ClaimOk(self.succinct.claim)

InnerVerifierParameters(self) ==
    IF self.variant = "Composite"
    THEN self.composite.verifier_parameters
    ELSE self.succinct.verifier_parameters

(***************************************************************************)
(* Proof.  A call returns its result and the trace of the steps it took.   *)
(***************************************************************************)
ProofClaim(self) == InnerClaim(self.inner)

Ret(r, t) == [result |-> r, trace |-> t]
After(step, ret) == Ret(ret.result, <<step>> \o ret.trace)

\* the debug! statement of the mismatch branch: `self.inner.claim()?`
LogMismatch_wrongArm(self) ==
    IF self.inner.variant = "Succinct" THEN Ok ELSE Err("ReceiptFormatError")

LogMismatch(self) ==
    LET c == InnerClaim(self.inner)
    IN IF c.ok THEN Ok ELSE Err(c.err)

\* the error built in the mismatch branch
MismatchError_swapped(self, expected_claim) ==
    LET c == ProofClaim(self)
    IN IF ~c.ok THEN Err(c.err)
       ELSE ClaimDigestMismatch(MaybePrunedDigest(c.value), ClaimDigest(expected_claim))

MismatchError(self, expected_claim) ==
    LET c == ProofClaim(self)
    IN IF ~c.ok THEN Err(c.err)
       ELSE ClaimDigestMismatch(ClaimDigest(expected_claim), MaybePrunedDigest(c.value))

\* the claim check that follows the integrity check
CheckClaim_errorAsMismatch(self, id, p, dbg) ==
    LET expected_claim == ReceiptClaimOk(id, PrunedOut(IntoDigest(p)))
        actual == InnerClaim(self.inner)
    IN IF ~actual.ok
       THEN Ret(ClaimDigestMismatch(ClaimDigest(expected_claim), NoDigest), <<"claim", "compare">>)
       ELSE IF ClaimDigest(expected_claim) # MaybePrunedDigest(actual.value)
            THEN Ret(MismatchError(self, expected_claim), <<"claim", "compare", "claim">>)
            ELSE Ret(Ok, <<"claim", "compare">>)

CheckClaim(self, id, p, dbg) ==
    LET expected_claim == ReceiptClaimOk(id, PrunedOut(IntoDigest(p)))
        actual == InnerClaim(self.inner)
    IN IF ~actual.ok THEN Ret(Err(actual.err), <<"claim">>)
       ELSE IF ClaimDigest(expected_claim) # MaybePrunedDigest(actual.value)
            THEN IF dbg /\ ~LogMismatch(self).ok
                 THEN Ret(LogMismatch(self), <<"claim", "compare", "log">>)
                 ELSE Ret(MismatchError(self, expected_claim),
                          <<"claim", "compare">> \o (IF dbg THEN <<"log">> ELSE <<>>)
                          \o <<"claim">>)
            ELSE Ret(Ok, <<"claim", "compare">>)

VerifyWithContext_noIntegrity(self, c, id, p, dbg) ==
    After("verify_integrity", CheckClaim(self, id, p, dbg))

VerifyWithContext_claimFirst(self, c, id, p, dbg) ==
    LET checked == CheckClaim(self, id, p, dbg)
        integrity == InnerVerifyIntegrity(self.inner, c)
    IN IF ~checked.result.ok THEN checked
       ELSE Ret(integrity, checked.trace \o <<"verify_integrity">>)

VerifyWithContext(self, c, id, p, dbg) ==
    LET integrity == InnerVerifyIntegrity(self.inner, c)
    IN IF ~integrity.ok THEN Ret(integrity, <<"verify_integrity">>)
       ELSE After("verify_integrity", CheckClaim(self, id, p, dbg))

Verify(self, id, p, dbg) == VerifyWithContext(self, VerifierContext_v1_2, id, p, dbg)

(***************************************************************************)
(* InnerAssumptionReceipt                                                  *)
(***************************************************************************)
AssumptionClaimDigest_noPropagate(self) ==
    IF self.variant = "Composite"
    THEN DigestOk(ClaimDigest(CompositeClaim(self.composite).value))
    ELSE DigestOk(MaybePrunedDigest(self.succinct.claim))

AssumptionClaimDigest(self) ==
    IF self.variant = "Composite"
    THEN LET c == CompositeClaim(self.composite)
         IN IF c.ok THEN DigestOk(ClaimDigest(c.value)) ELSE DigestErr(c.err)
    ELSE DigestOk(MaybePrunedDigest(self.succinct.claim))

AssumptionVerifierParameters(self) ==
    IF self.variant = "Composite"
    THEN self.composite.verifier_parameters
    ELSE self.succinct.verifier_parameters

FromInnerReceipt(value) ==
    IF value.variant = "Composite"
    THEN Composite(value.composite)
    ELSE Succinct(IntoUnknown(value.succinct))

(***************************************************************************)
(* circuit::v1_2::control_id                                               *)
(***************************************************************************)
MIN_CYCLES_PO2 == 13
MAX_CYCLES_PO2 == 24

TableLen == MAX_CYCLES_PO2 - MIN_CYCLES_PO2 + 1
SHA256_CONTROL_IDS == [i \in 1..TableLen |-> 100 + i]
POSEIDON2_CONTROL_IDS == [i \in 1..TableLen |-> 200 + i]
BLAKE2B_CONTROL_IDS == [i \in 1..TableLen |-> 300 + i]

HashNames == {"sha-256", "poseidon2", "blake2b", "sha256", "keccak", ""}
SupportedHashNames == {"sha-256", "poseidon2", "blake2b"}
TableOf(name) ==
    CASE name = "sha-256" -> SHA256_CONTROL_IDS
      [] name = "poseidon2" -> POSEIDON2_CONTROL_IDS
      [] name = "blake2b" -> BLAKE2B_CONTROL_IDS

None(idx) == [kind |-> "None", value |-> NoDigest, idx |-> idx]
Some(v, idx) == [kind |-> "Some", value |-> v, idx |-> idx]
Panic(idx) == [kind |-> "panic", value |-> NoDigest, idx |-> idx]
NotComputed == 0 - MAX_CYCLES_PO2 - 1

\* TABLE[idx] on a fixed-size array: the entry, or a panic out of bounds
Index(table, idx) ==
    IF idx + 1 \in DOMAIN table THEN Some(table[idx + 1], idx) ELSE Panic(idx)

control_id_exclusiveRange(name, p) ==
    IF ~(p >= MIN_CYCLES_PO2 /\ p < MAX_CYCLES_PO2) THEN None(NotComputed)
    ELSE LET idx == p - MIN_CYCLES_PO2
         IN IF name \in SupportedHashNames THEN Index(TableOf(name), idx) ELSE None(idx)

control_id(name, p) ==
    IF ~(p >= MIN_CYCLES_PO2 /\ p <= MAX_CYCLES_PO2) THEN None(NotComputed)
    ELSE LET idx == p - MIN_CYCLES_PO2
         IN CASE name = "sha-256" -> Index(SHA256_CONTROL_IDS, idx)
              [] name = "poseidon2" -> Index(POSEIDON2_CONTROL_IDS, idx)
              [] name = "blake2b" -> Index(BLAKE2B_CONTROL_IDS, idx)
              [] OTHER -> None(idx)

(***************************************************************************)
(* The state machine: one call, its arguments drawn by Init                *)
(***************************************************************************)
NoProof == ProofNew(Composite(NoComposite))
NoPubs == PubsDigest(NoDigest)

NoCall ==
    /\ pc = "start"
    /\ result = Ok
    /\ trace = <<>>
    /\ cid = None(NotComputed)
    /\ assumption = Composite(NoComposite)

Init ==
    /\ NoCall
    /\ \/ /\ op = "verify_with_context"
          /\ proof \in Proofs
          /\ ctx \in Contexts
          /\ image_id \in ImageIds
          /\ pubs \in PubsValues
          /\ debug \in BOOLEAN
          /\ hash_name = ""
          /\ po2 = 0
       \/ /\ op = "verify"
          /\ proof \in Proofs
          /\ ctx = "default"
          /\ image_id \in ImageIds
          /\ pubs \in PubsValues
          /\ debug \in BOOLEAN
          /\ hash_name = ""
          /\ po2 = 0
       \/ /\ op = "from"
          /\ proof \in Proofs
          /\ ctx = "default"
          /\ image_id = 0
          /\ pubs = NoPubs
          /\ debug = FALSE
          /\ hash_name = ""
          /\ po2 = 0
       \/ /\ op = "control_id"
          /\ proof = NoProof
          /\ ctx = "default"
          /\ image_id = 0
          /\ pubs = NoPubs
          /\ debug = FALSE
          /\ hash_name \in HashNames
          /\ po2 \in 0..MaxPo2

args == <<op, proof, ctx, image_id, pubs, debug, hash_name, po2>>

CallVerifyWithContext ==
    /\ pc = "start"
    /\ op = "verify_with_context"
    /\ LET ret == VerifyWithContext(proof, ctx, image_id, pubs, debug)
       IN /\ result' = ret.result
          /\ trace' = ret.trace
    /\ pc' = "done"
    /\ UNCHANGED <<args, cid, assumption>>

CallVerify ==
    /\ pc = "start"
    /\ op = "verify"
    /\ LET ret == Verify(proof, image_id, pubs, debug)
       IN /\ result' = ret.result
          /\ trace' = ret.trace
    /\ pc' = "done"
    /\ UNCHANGED <<args, cid, assumption>>

CallFrom ==
    /\ pc = "start"
    /\ op = "from"
    /\ assumption' = FromInnerReceipt(proof.inner)
    /\ pc' = "done"
    /\ UNCHANGED <<args, result, trace, cid>>

CallControlId ==
    /\ pc = "start"
    /\ op = "control_id"
    /\ cid' = control_id(hash_name, po2)
    /\ pc' = "done"
    /\ UNCHANGED <<args, result, trace, assumption>>

Next ==
    \/ CallVerifyWithContext
    \/ CallVerify
    \/ CallFrom
    \/ CallControlId

Spec == Init /\ [][Next]_vars

TypeOK ==
    /\ op \in {"verify_with_context", "verify", "from", "control_id"}
    /\ pc \in {"start", "done"}
    /\ result.ok \in BOOLEAN
    /\ cid.kind \in {"None", "Some", "panic"}

(***************************************************************************)
(* Properties                                                              *)
(***************************************************************************)
VerifiedWithContext == op = "verify_with_context" /\ pc = "done"
IntegrityOf == InnerVerifyIntegrity(proof.inner, ctx)
ClaimOf == InnerClaim(proof.inner)
ExpectedDigest == ClaimDigest(ReceiptClaimOk(image_id, PrunedOut(IntoDigest(pubs))))
ReceivedDigest == MaybePrunedDigest(ClaimOf.value)
StoredOkClaim ==
    /\ proof.inner.variant = "Succinct"
    /\ ~proof.inner.succinct.claim.pruned
    /\ proof.inner.succinct.claim.value.exit_code = "Halted(0)"
StoredMatches ==
    /\ image_id = proof.inner.succinct.claim.value.pre
    /\ IntoDigest(pubs) = OutputDigest(proof.inner.succinct.claim.value.output)

\* C1: verify_with_context returns Ok exactly when the integrity check
\* succeeds, claim() succeeds and the digest of ReceiptClaim::ok(image_id,
\* Pruned(pubs)) equals the digest of the receipt's claim; a Succinct receipt
\* storing Claim::ok(P, O) whose integrity holds is accepted for (P, O) and
\* for nothing else.
C1_OkIffIntegrityClaimAndDigest ==
    VerifiedWithContext =>
        /\ result.ok <=> (IntegrityOf.ok /\ ClaimOf.ok /\ ExpectedDigest = ReceivedDigest)
        /\ (StoredOkClaim /\ IntegrityOf.ok) => (result.ok <=> StoredMatches)

C1_Witness ==
    /\ VerifiedWithContext
    /\ StoredOkClaim
    /\ StoredMatches
    /\ result.ok

\* C2: when integrity and claim extraction succeed but the expected image id
\* or output digest differs from what the receipt attests, the call fails
\* with ClaimDigestMismatch whose `expected` is the digest of the expected
\* claim and whose `received` is the digest of the receipt's claim.
C2_MismatchCarriesBothDigests ==
    (/\ VerifiedWithContext
     /\ IntegrityOf.ok
     /\ ClaimOf.ok
     /\ \/ ExpectedDigest # ReceivedDigest
        \/ StoredOkClaim /\ ~StoredMatches)
    => result = ClaimDigestMismatch(ExpectedDigest, ReceivedDigest)

C2_Witness ==
    /\ VerifiedWithContext
    /\ StoredOkClaim
    /\ image_id = proof.inner.succinct.claim.value.pre
    /\ IntoDigest(pubs) # OutputDigest(proof.inner.succinct.claim.value.output)
    /\ result.err = "ClaimDigestMismatch"
    /\ result.expected # result.received

\* C3: the integrity check is the first step of verify_with_context, and
\* when it fails with e the call returns exactly e without extracting the
\* claim or comparing digests.
C3_IntegrityFirstAndShortCircuits ==
    VerifiedWithContext =>
        /\ trace[1] = "verify_integrity"
        /\ ~IntegrityOf.ok =>
            /\ result = IntegrityOf
            /\ trace = <<"verify_integrity">>

C3_Witness ==
    /\ VerifiedWithContext
    /\ ~IntegrityOf.ok
    /\ ClaimOf.ok
    /\ ExpectedDigest # ReceivedDigest
    /\ result.err = "InvalidProof"

LookedUp == op = "control_id" /\ pc = "done"
Po2InRange == po2 >= MIN_CYCLES_PO2 /\ po2 <= MAX_CYCLES_PO2

\* C4: control_id returns None for every po2 outside
\* [MIN_CYCLES_PO2, MAX_CYCLES_PO2] and for every unsupported hash name; for
\* a supported name and a po2 in the range it returns Some of the entry at
\* index po2 - MIN_CYCLES_PO2 of that hash's table; an index that is
\* computed is never negative nor past the last entry.
C4_ControlIdLookup ==
    LookedUp =>
        /\ ~Po2InRange => cid.kind = "None"
        /\ hash_name \notin SupportedHashNames => cid.kind = "None"
        /\ (Po2InRange /\ hash_name \in SupportedHashNames) =>
            cid = Some(TableOf(hash_name)[po2 - MIN_CYCLES_PO2 + 1], po2 - MIN_CYCLES_PO2)
        /\ cid.idx # NotComputed => (cid.idx >= 0 /\ cid.idx < TableLen)
        /\ cid.kind # "panic"

C4_Witness ==
    /\ LookedUp
    /\ hash_name = "sha-256"
    /\ po2 = MIN_CYCLES_PO2
    /\ cid = Some(SHA256_CONTROL_IDS[1], 0)

\* C5: Proof::verify returns what verify_with_context returns with the v1_1
\* verifier context and the same image_id and pubs.
C5_VerifyPinsV1_1 ==
    (op = "verify" /\ pc = "done") =>
        result = VerifyWithContext(proof, VerifierContext_v1_1, image_id, pubs, debug).result

C7_ClaimErrorPropagates ==
    /\ (/\ VerifiedWithContext
        /\ IntegrityOf.ok
        /\ proof.inner.variant = "Composite"
        /\ ~CompositeClaim(proof.inner.composite).ok)
       => result = Err(CompositeClaim(proof.inner.composite).err)
    /\ proof.inner.variant = "Succinct" => ClaimOf = ClaimOk(proof.inner.succinct.claim)

C7_Witness ==
    /\ VerifiedWithContext
    /\ IntegrityOf.ok
    /\ proof.inner.variant = "Composite"
    /\ proof.inner.composite.segments = <<>>
    /\ result = Err("ReceiptFormatError")

Converted == op = "from" /\ pc = "done"

C10_DebugLoggingDoesNotChangeResult ==
    VerifiedWithContext =>
        result = VerifyWithContext(proof, ctx, image_id, pubs, ~debug).result

C10_Witness ==
    /\ VerifiedWithContext
    /\ debug
    /\ \E i \in DOMAIN trace : trace[i] = "log"
    /\ result.err = "ClaimDigestMismatch"
====
